---- MODULE Spec2Model ----
(***************************************************************************)
(* State-machine model of the accessor adaptation layer of opendal:        *)
(*   - AsyncFsWriter  (services/nucleifs/writer.rs)                         *)
(*   - AsyncFsReader  (services/nucleifs/reader.rs)                         *)
(*   - AsyncFsLister  (services/nucleifs/lister.rs)                         *)
(*   - GcsWriter      (services/gcs/writer.rs)                              *)
(* Each component has its own specification over the shared variables; the *)
(* variables of the other components stay at their initial values.         *)
(***************************************************************************)
EXTENDS Integers, Sequences, FiniteSets, TLC

(***************************************************************************)
(* Bounds of the model.                                                    *)
(***************************************************************************)
\* longest input of one Writer.write call
MaxWrite == 2
\* most bytes passed to write in one run, over all handles
MaxTotal == 3

\* longest backing file of a Reader
MaxFileLen == 3
\* largest limit passed to Reader.read
MaxLimit == 3
\* capacity the Reader's scratch buffer starts with (the code starts with
\* 64 * 1024; the model scales it down so that a read can exceed it)
BufCapacity == 2
\* largest file position a seek may establish
MaxPos == 4

\* byte values a caller writes
Bytes == {1, 2}
\* content of a target file that exists before the writer is created
OldContent == <<3>>

None == "None"

\* all byte strings of length 0..n
RECURSIVE SeqsUpTo(_, _)
SeqsUpTo(S, n) ==
    IF n = 0 THEN {<<>>}
    ELSE LET shorter == SeqsUpTo(S, n - 1)
         IN  shorter \cup {Append(s, b) : s \in {t \in shorter : Len(t) = n - 1}, b \in S}

Min(a, b) == IF a < b THEN a ELSE b
Max(a, b) == IF a > b THEN a ELSE b

IsPrefix(p, s) == Len(p) <= Len(s) /\ SubSeq(s, 1, Len(p)) = p

(***************************************************************************)
(* State.                                                                  *)
(***************************************************************************)
\* nucleifs Writer and the file system under it
VARIABLES
    fs,          \* Paths -> inode or None: the directory entries
    data,        \* Inodes -> byte sequence: the file contents
    tmp_path,    \* AsyncFsWriter.tmp_path per handle (None: Option::None)
    f,           \* AsyncFsWriter.f per handle: [ino, pos]
    wlast,       \* the last Writer call and what it returned
    passed,      \* history: bytes passed to the successful write calls of a handle
    closeFailed, \* history: a close of this handle has returned an error
    prior        \* history: what a reader of the target path observed at Init

\* nucleifs Reader
VARIABLES
    file,        \* the bytes of the backing resource
    rpos,        \* position of AsyncFsReader.inner
    buf,         \* memory of AsyncFsReader.buf, one cell per byte of capacity
    rlast,       \* the last Reader call and what it returned (afterSeek, seekOff:
                 \* whether a read directly followed a successful seek, and to where)
    rt           \* the caller's read-until-empty loop: [limit, acc, state]

\* nucleifs Lister
VARIABLES
    root,        \* AsyncFsLister.root
    listed,      \* the directory AsyncFsLister.rd was opened on: [dir, children]
    rd,          \* AsyncFsLister.rd: the native entries not yet consumed
    yielded,     \* history: the entries returned so far, in order
    llast        \* the last Lister call and what it returned

\* gcs Writer and the object store behind it
VARIABLES
    content_type, \* GcsWriter.op.content_type() (None: Option::None)
    object,      \* what the store holds at GcsWriter.path
    requests,    \* number of insert requests sent so far
    glast,       \* the last GcsWriter call and what it returned
    overwrote    \* history: a write that returned Ok came directly after a
                 \* write that returned Ok with another, non-empty payload

\* nucleifs builder and the directories of the backing store
VARIABLES
    builder,     \* NucleiFsBuilder: [root, atomic_write_dir] (None: Option::None)
    store,       \* directory -> [exists, entries]: the backing store
    backend,     \* what the last build returned: the NucleifsBackend, or none
    blast,       \* the last builder call and what it returned
    built        \* history: the Accessors the builds returned, in order

wvars == <<fs, data, tmp_path, f, wlast, passed, closeFailed, prior>>

rvars == <<file, rpos, buf, rlast, rt>>

lvars == <<root, listed, rd, yielded, llast>>

gvars == <<content_type, object, requests, glast, overwrote>>

bvars == <<builder, store, backend, blast, built>>

vars == <<wvars, rvars, lvars, gvars, bvars>>

(***************************************************************************)
(* The file system seen by the nucleifs Writer: directory entries (path -> *)
(* inode) and inode contents.  An open std::fs::File refers to its inode,  *)
(* not to its path, so it survives rename and remove_file.                 *)
(***************************************************************************)
Writers == {1, 2}

TargetPath == "target"

\* tmp_file_of: "<basename>.<uuid>", a fresh uuid per call
tmp_file_of(w) == IF w = 1 THEN "target.uuid1" ELSE "target.uuid2"

Paths == {TargetPath} \cup {tmp_file_of(w) : w \in Writers}

\* OldIno is the file at the target path before any writer exists; InoOf(w)
\* is the file created when writer w was opened
OldIno == "ino0"

InoOf(w) == IF w = 1 THEN "ino1" ELSE "ino2"

Inodes == {OldIno} \cup {InoOf(w) : w \in Writers}

\* what a reader of a path observes
Absent == [exists |-> FALSE, bytes |-> <<>>]

Present(bs) == [exists |-> TRUE, bytes |-> bs]

NoHandle == [ino |-> None, pos |-> 0]




\* what a reader of path p observes
ContentAt(filesys, contents, p) ==
    IF filesys[p] = None THEN Absent ELSE Present(contents[filesys[p]])

TargetView == ContentAt(fs, data, TargetPath)

\* std::fs::File write at the handle's position
WriteAt(content, pos, bs) ==
    LET newLen == Max(Len(content), pos + Len(bs))
    IN  [i \in 1..newLen |->
            IF i > pos /\ i <= pos + Len(bs) THEN bs[i - pos]
            ELSE IF i <= Len(content) THEN content[i]
            ELSE 0]

\* counts one underlying write of a buffer may return: AsyncWriteExt::write
\* makes a single write call, which may accept only a prefix of the buffer
WriteCounts(bs) == IF Len(bs) = 0 THEN {0} ELSE 1..Len(bs)

\* std::fs::rename(from, to): replaces the entry at `to` in one step
Rename(filesys, from, to) ==
    [filesys EXCEPT ![to] = filesys[from], ![from] = None]

\* std::fs::remove_file(p): removes the directory entry only
RemoveFile(filesys, p) == [filesys EXCEPT ![p] = None]

IsAtomic(w) == tmp_path[w] # None

Live(w) == f[w] # NoHandle

WInitLast ==
    [w |-> 0, op |-> "new", mode |-> "async", res |-> "Ok", n |-> 0,
     arg |-> <<>>, steps |-> <<>>]

(***************************************************************************)
(* AsyncFsWriter::new for the handles in `live`.  A handle with a staging  *)
(* path holds the freshly created staging file; a handle without one holds *)
(* the freshly created (truncated) target file itself.                     *)
(***************************************************************************)
WriterInit(live) ==
    \E atomic \in [live -> BOOLEAN], old \in {Absent, Present(OldContent)} :
        /\ \A v \in live, w \in live : atomic[v] = atomic[w]
        /\ tmp_path = [w \in Writers |->
                          IF w \in live /\ atomic[w] THEN tmp_file_of(w) ELSE None]
        /\ f = [w \in Writers |->
                   IF w \notin live THEN NoHandle
                   ELSE IF atomic[w] THEN [ino |-> InoOf(w), pos |-> 0]
                   ELSE [ino |-> OldIno, pos |-> 0]]
        /\ LET anyDirect == \E w \in live : ~atomic[w]
           IN  /\ fs = [p \in Paths |->
                           IF p = TargetPath
                           THEN (IF anyDirect \/ old.exists THEN OldIno ELSE None)
                           ELSE IF \E w \in live : atomic[w] /\ p = tmp_file_of(w)
                           THEN InoOf(CHOOSE w \in live : p = tmp_file_of(w))
                           ELSE None]
               /\ data = [i \in Inodes |->
                             IF i = OldIno /\ ~anyDirect THEN old.bytes ELSE <<>>]
               /\ prior = IF anyDirect THEN Present(<<>>) ELSE old
        /\ wlast = WInitLast
        /\ passed = [w \in Writers |-> <<>>]
        /\ closeFailed = [w \in Writers |-> FALSE]

(***************************************************************************)
(* write: one underlying write of the buffer, its count returned as is.    *)
(* The async and the blocking variant run the same call.                   *)
(***************************************************************************)
WriteOutcome(w, bs, ioOk, n) ==
    IF ioOk
    THEN [res |-> "Ok", n |-> n,
          data |-> [data EXCEPT ![f[w].ino] = WriteAt(@, f[w].pos, SubSeq(bs, 1, n))],
          pos |-> f[w].pos + n]
    ELSE [res |-> "Unexpected", n |-> 0, data |-> data, pos |-> f[w].pos]

WriteEffect(w, bs, out, mode) ==
    /\ data' = out.data
    /\ f' = [f EXCEPT ![w].pos = out.pos]
    /\ passed' = [passed EXCEPT ![w] = IF out.res = "Ok" THEN @ \o bs ELSE @]
    /\ wlast' = [w |-> w, op |-> "write", mode |-> mode, res |-> out.res,
                 n |-> out.n, arg |-> bs, steps |-> <<"write">>]
    /\ UNCHANGED <<fs, tmp_path, closeFailed, prior, rvars, lvars, gvars, bvars>>

\* the number of bytes passed to the write calls of all handles so far
TotalPassed == Len(passed[1]) + Len(passed[2])

\* oio::Write::write
Write(w) ==
    /\ Live(w)
    /\ \E bs \in SeqsUpTo(Bytes, MaxWrite), ioOk \in BOOLEAN :
        /\ TotalPassed + Len(bs) <= MaxTotal
        /\ \E n \in WriteCounts(bs) :
            WriteEffect(w, bs, WriteOutcome(w, bs, ioOk, n), "async")

\* oio::BlockingWrite::write
BlockingWrite(w) ==
    /\ Live(w)
    /\ \E bs \in SeqsUpTo(Bytes, MaxWrite), ioOk \in BOOLEAN :
        /\ TotalPassed + Len(bs) <= MaxTotal
        /\ \E n \in WriteCounts(bs) :
            WriteEffect(w, bs, WriteOutcome(w, bs, ioOk, n), "blocking")

(***************************************************************************)
(* close.  The rename step: only with a staging path; it fails when the    *)
(* staging path is gone (NotFound) or when the file system refuses it.     *)
(***************************************************************************)
RenameStep(w, renameOk) ==
    IF tmp_path[w] = None
    THEN [res |-> "Ok", steps |-> <<>>, fs |-> fs]
    ELSE IF renameOk /\ fs[tmp_path[w]] # None
    THEN [res |-> "Ok", steps |-> <<"rename">>,
          fs |-> Rename(fs, tmp_path[w], TargetPath)]
    ELSE [res |-> "Unexpected", steps |-> <<"rename">>, fs |-> fs]

\* mutant of SyncThenRename: the rename is attempted whatever the sync returned
SyncThenRenameUnguarded(w, syncOk, renameOk) ==
    LET r == RenameStep(w, renameOk)
    IN  [res |-> IF syncOk THEN r.res ELSE "Unexpected",
         steps |-> <<"sync">> \o r.steps, fs |-> r.fs]

\* sync_all().and_then(|_| rename): the rename runs only after a successful sync
SyncThenRename(w, syncOk, renameOk) ==
    IF syncOk
    THEN LET r == RenameStep(w, renameOk)
         IN  [res |-> r.res, steps |-> <<"sync">> \o r.steps, fs |-> r.fs]
    ELSE [res |-> "Unexpected", steps |-> <<"sync">>, fs |-> fs]

\* oio::Write::close: flush, then sync, then rename
CloseOutcome(w, flushOk, syncOk, renameOk) ==
    IF flushOk
    THEN LET r == SyncThenRename(w, syncOk, renameOk)
         IN  [res |-> r.res, steps |-> <<"flush">> \o r.steps, fs |-> r.fs]
    ELSE [res |-> "Unexpected", steps |-> <<"flush">>, fs |-> fs]

\* oio::BlockingWrite::close: sync, then rename
BlockingCloseOutcome(w, syncOk, renameOk) ==
    IF syncOk
    THEN LET r == RenameStep(w, renameOk)
         IN  [res |-> r.res, steps |-> <<"sync">> \o r.steps, fs |-> r.fs]
    ELSE [res |-> "Unexpected", steps |-> <<"sync">>, fs |-> fs]

CloseEffect(w, out, mode) ==
    /\ fs' = out.fs
    /\ closeFailed' = [closeFailed EXCEPT ![w] = @ \/ out.res # "Ok"]
    /\ wlast' = [w |-> w, op |-> "close", mode |-> mode, res |-> out.res,
                 n |-> 0, arg |-> <<>>, steps |-> out.steps]
    /\ UNCHANGED <<data, tmp_path, f, passed, prior, rvars, lvars, gvars, bvars>>

Close(w) ==
    /\ Live(w)
    /\ \E flushOk \in BOOLEAN, syncOk \in BOOLEAN, renameOk \in BOOLEAN :
        CloseEffect(w, CloseOutcome(w, flushOk, syncOk, renameOk), "async")

BlockingClose(w) ==
    /\ Live(w)
    /\ \E syncOk \in BOOLEAN, renameOk \in BOOLEAN :
        CloseEffect(w, BlockingCloseOutcome(w, syncOk, renameOk), "blocking")

(***************************************************************************)
(* abort: remove the staging file, or Unsupported without a staging path.  *)
(***************************************************************************)
\* mutant of AbortOutcome: the target path is removed instead of the staging path
AbortOutcomeWrongPath(w, removeOk) ==
    IF tmp_path[w] # None
    THEN IF removeOk /\ fs[tmp_path[w]] # None
         THEN [res |-> "Ok", steps |-> <<"remove">>, fs |-> RemoveFile(fs, TargetPath)]
         ELSE [res |-> "Unexpected", steps |-> <<"remove">>, fs |-> fs]
    ELSE [res |-> "Unsupported", steps |-> <<>>, fs |-> fs]

AbortOutcome(w, removeOk) ==
    IF tmp_path[w] # None
    THEN IF removeOk /\ fs[tmp_path[w]] # None
         THEN [res |-> "Ok", steps |-> <<"remove">>, fs |-> RemoveFile(fs, tmp_path[w])]
         ELSE [res |-> "Unexpected", steps |-> <<"remove">>, fs |-> fs]
    ELSE [res |-> "Unsupported", steps |-> <<>>, fs |-> fs]

Abort(w) ==
    /\ Live(w)
    /\ \E removeOk \in BOOLEAN :
        LET out == AbortOutcome(w, removeOk)
        IN  /\ fs' = out.fs
            /\ wlast' = [w |-> w, op |-> "abort", mode |-> "async", res |-> out.res,
                         n |-> 0, arg |-> <<>>, steps |-> out.steps]
    /\ UNCHANGED <<data, tmp_path, f, passed, closeFailed, prior, rvars, lvars, gvars, bvars>>

(***************************************************************************)
(* AsyncFsReader: the backing file, the position of the inner handle and   *)
(* the scratch buffer.  The Vec's length stays 0; `buf` is the memory of   *)
(* its capacity, which read calls write into and never clear.              *)
(***************************************************************************)
\* byte values of a backing file
FileBytes == {"a", "b"}
\* a cell of the scratch buffer no read has written yet
Uninit == "?"


RInitLast ==
    [op |-> "new", res |-> "Ok", limit |-> 0, out |-> <<>>, origin |-> "Start",
     arg |-> 0, off |-> 0, afterSeek |-> FALSE, seekOff |-> 0]

ReaderInit ==
    /\ file \in SeqsUpTo(FileBytes, MaxFileLen)
    /\ rpos = 0
    /\ buf = [i \in 1..BufCapacity |-> Uninit]
    /\ rlast = RInitLast
    /\ rt = [limit |-> 0, acc |-> <<>>, state |-> "idle"]

\* the same Reader, with a caller about to run the read-until-empty loop
RoundTripInit ==
    /\ file \in SeqsUpTo(FileBytes, MaxFileLen)
    /\ rpos = 0
    /\ buf = [i \in 1..BufCapacity |-> Uninit]
    /\ rlast = RInitLast
    /\ \E limit \in 0..MaxLimit : rt = [limit |-> limit, acc |-> <<>>, state |-> "reading"]

\* buf.reserve(limit) when capacity < limit: amortized growth of an empty Vec
Reserve(mem, limit) ==
    IF Len(mem) < limit
    THEN [i \in 1..Max(2 * Len(mem), limit) |-> IF i <= Len(mem) THEN mem[i] ELSE Uninit]
    ELSE mem

\* counts one underlying read into a buffer of `limit` bytes may return with
\* `remaining` bytes before end-of-stream: 0 only for an empty buffer or at
\* end-of-stream, otherwise any count up to what fits
ReadCounts(limit, remaining) ==
    IF limit = 0 \/ remaining <= 0 THEN {0} ELSE 1..Min(limit, remaining)

\* the inner read stores the n bytes at the position into the head of the slice
ReadInto(mem, bytes, pos, n) ==
    [i \in 1..Len(mem) |-> IF i <= n THEN bytes[pos + i] ELSE mem[i]]

\* the slice handed to the inner read: read_buf.initialized_mut() after
\* assume_init(limit), the first `limit` bytes of the spare capacity
SliceLenWholeCapacity(mem, limit) == Len(mem)

SliceLen(mem, limit) == limit

\* mutant of Filled: the initialized region is returned, not the filled one
FilledInitialized(mem, limit, n) == SubSeq(mem, 1, limit)

\* read_buf.set_filled(n); read_buf.filled()
Filled(mem, limit, n) == SubSeq(mem, 1, n)

\* oio::Read::read
ReadOutcome(limit, ioOk, n) ==
    LET grown == Reserve(buf, limit)
    IN  IF ioOk
        THEN LET mem == ReadInto(grown, file, rpos, n)
             IN  [res |-> "Ok", out |-> Filled(mem, limit, n), buf |-> mem,
                  pos |-> rpos + n]
        ELSE [res |-> "Unexpected", out |-> <<>>, buf |-> grown, pos |-> rpos]

ReadEffect(limit, out) ==
    /\ buf' = out.buf
    /\ rpos' = out.pos
    /\ rlast' = [op |-> "read", res |-> out.res, limit |-> limit, out |-> out.out,
                 origin |-> "Start", arg |-> 0, off |-> 0,
                 afterSeek |-> (rlast.op = "seek" /\ rlast.res = "Ok"),
                 seekOff |-> IF rlast.op = "seek" /\ rlast.res = "Ok" THEN rlast.off ELSE 0]
    /\ UNCHANGED <<file, wvars, lvars, gvars, bvars>>

Read ==
    /\ \E limit \in 0..MaxLimit, ioOk \in BOOLEAN :
        \E n \in ReadCounts(SliceLen(Reserve(buf, limit), limit), Len(file) - rpos) :
            ReadEffect(limit, ReadOutcome(limit, ioOk, n))
    /\ UNCHANGED rt

\* the absolute offset a seek asks for
SeekTarget(origin, off) ==
    CASE origin = "Start" -> off
      [] origin = "Current" -> rpos + off
      [] origin = "End" -> Len(file) + off

\* mutant of SeekOutcome: every seek is taken relative to the current position
SeekOutcomeFromCurrent(origin, off) ==
    LET t == rpos + off
    IN  IF t >= 0
        THEN [res |-> "Ok", off |-> t, pos |-> t]
        ELSE [res |-> "Unexpected", off |-> 0, pos |-> rpos]

\* oio::Read::seek: the inner seek, its result returned as is; a negative
\* target is an error and leaves the position where it was
SeekOutcome(origin, off) ==
    LET t == SeekTarget(origin, off)
    IN  IF t >= 0
        THEN [res |-> "Ok", off |-> t, pos |-> t]
        ELSE [res |-> "Unexpected", off |-> 0, pos |-> rpos]

Seek ==
    \E origin \in {"Start", "Current", "End"}, off \in (0 - MaxPos)..MaxPos :
        /\ origin = "Start" => off >= 0
        /\ SeekTarget(origin, off) <= MaxPos
        /\ LET out == SeekOutcome(origin, off)
           IN  /\ rpos' = out.pos
               /\ rlast' = [op |-> "seek", res |-> out.res, limit |-> 0, out |-> <<>>,
                            origin |-> origin, arg |-> off, off |-> out.off,
                            afterSeek |-> FALSE, seekOff |-> 0]
        /\ UNCHANGED <<file, buf, rt, wvars, lvars, gvars, bvars>>

\* one turn of a caller that reads with a fixed limit from the start until a
\* read returns no bytes, and concatenates what the reads return
RtRead ==
    /\ rt.state = "reading"
    /\ \E ioOk \in BOOLEAN :
        \E n \in ReadCounts(SliceLen(Reserve(buf, rt.limit), rt.limit), Len(file) - rpos) :
            LET out == ReadOutcome(rt.limit, ioOk, n)
            IN  /\ ReadEffect(rt.limit, out)
                /\ rt' = [rt EXCEPT
                            !.acc = @ \o out.out,
                            !.state = IF out.res # "Ok" THEN "failed"
                                      ELSE IF out.out = <<>> THEN "done"
                                      ELSE "reading"]


(***************************************************************************)
(* AsyncFsLister.  Paths are sequences of characters; the host is a Unix   *)
(* (reader.rs imports std::os::fd), so MAIN_SEPARATOR is "/".              *)
(***************************************************************************)
MAIN_SEPARATOR == "/"

\* names a directory entry may have; the last one holds a backslash
EntryNames == {<<"a", ".", "t", "x", "t">>, <<"b">>, <<"x", "\\", "y">>}

FileTypes == {"file", "dir", "other"}

\* how reading a native entry may fail: not at all, at rd.next(), at file_type()
Failures == {"none", "iter", "type"}

NativeEntries == [name : EntryNames, ft : FileTypes, fail : Failures]

\* the directories listed, relative to the root: the root itself and root/d
ListedDirs == {<<>>, <<"d">>}

RootPath == <<"/", "r">>

\* Path::join
JoinPath(dir, name) == dir \o <<MAIN_SEPARATOR>> \o name

\* the absolute path of a listed directory
DirPath(rootp, rel) == IF rel = <<>> THEN rootp ELSE JoinPath(rootp, rel)

\* DirEntry::path
EntryPath(dirp, de) == JoinPath(dirp, de.name)

\* Path::strip_prefix(base) of a path below base
StripPrefix(p, base) == SubSeq(p, Len(base) + 2, Len(p))

\* str::replace(from, to) for one-character patterns
Replace(str, from, to) == [i \in 1..Len(str) |-> IF str[i] = from THEN to ELSE str[i]]

RECURSIVE CollapseSeparators(_)
CollapseSeparators(str) ==
    IF str = <<>> THEN <<>>
    ELSE IF Head(str) = "/" /\ Len(str) > 1 /\ str[2] = "/"
    THEN CollapseSeparators(Tail(str))
    ELSE <<Head(str)>> \o CollapseSeparators(Tail(str))

\* normalize_path: the canonical relative path, with no leading separator and
\* no repeated separator, a trailing one kept
normalize_path(str) ==
    LET c == CollapseSeparators(str)
    IN  IF c # <<>> /\ Head(c) = "/" THEN Tail(c) ELSE c

\* the rel_path of both next() variants
RelPath(rootp, entry_path) ==
    normalize_path(Replace(StripPrefix(entry_path, rootp), "\\", MAIN_SEPARATOR))

\* mutant of EntryOf: a directory's path gets no trailing separator
EntryOfNoTrailingSeparator(rel_path, ft) ==
    IF ft = "file" THEN [path |-> rel_path, mode |-> "FILE"]
    ELSE IF ft = "dir" THEN [path |-> rel_path, mode |-> "DIR"]
    ELSE [path |-> rel_path, mode |-> "Unknown"]

\* the Entry built from rel_path and the file type
EntryOf(rel_path, ft) ==
    IF ft = "file" THEN [path |-> rel_path, mode |-> "FILE"]
    ELSE IF ft = "dir" THEN [path |-> rel_path \o <<MAIN_SEPARATOR>>, mode |-> "DIR"]
    ELSE [path |-> rel_path, mode |-> "Unknown"]

NoEntry == [path |-> <<>>, mode |-> "none"]

\* AsyncFsLister::lister on the native entry de: iteration error, then
\* file_type error, then the entry
ListerOutcome(rootp, dirp, de) ==
    IF de.fail = "iter" THEN [res |-> "Err", entry |-> NoEntry]
    ELSE IF de.fail = "type" THEN [res |-> "Err", entry |-> NoEntry]
    ELSE [res |-> "Some", entry |-> EntryOf(RelPath(rootp, EntryPath(dirp, de)), de.ft)]

\* mutant of BlockingNextOutcome: a file_type error is swallowed and the entry
\* is returned with mode Unknown
BlockingNextOutcomeTypeErrorAsUnknown(rootp, dirp, de) ==
    IF de.fail = "iter" THEN [res |-> "Err", entry |-> NoEntry]
    ELSE LET rel_path == RelPath(rootp, EntryPath(dirp, de))
         IN  IF de.fail = "type" THEN [res |-> "Some", entry |-> EntryOf(rel_path, "other")]
             ELSE [res |-> "Some", entry |-> EntryOf(rel_path, de.ft)]

\* oio::BlockingList::next on the native entry de: iteration error, then the
\* path, then file_type error, then the entry
BlockingNextOutcome(rootp, dirp, de) ==
    IF de.fail = "iter" THEN [res |-> "Err", entry |-> NoEntry]
    ELSE LET rel_path == RelPath(rootp, EntryPath(dirp, de))
         IN  IF de.fail = "type" THEN [res |-> "Err", entry |-> NoEntry]
             ELSE [res |-> "Some", entry |-> EntryOf(rel_path, de.ft)]

LInitLast == [mode |-> "new", res |-> "None", entry |-> NoEntry]

\* sequences of at most n native entries with distinct names
RECURSIVE Listings(_)
Listings(n) ==
    IF n = 0 THEN {<<>>}
    ELSE LET shorter == Listings(n - 1)
         IN  shorter \cup
             {Append(l, de) : l \in {k \in shorter : Len(k) = n - 1},
                              de \in NativeEntries}

DistinctNames(l) == \A i, j \in 1..Len(l) : i # j => l[i].name # l[j].name

\* longest directory listed
MaxEntries == 2

\* AsyncFsLister::new(root, rd) on a directory below the root
ListerInit ==
    /\ root = RootPath
    /\ \E dir \in ListedDirs, children \in {l \in Listings(MaxEntries) : DistinctNames(l)} :
        /\ listed = [dir |-> dir, children |-> children]
        /\ rd = children
    /\ yielded = <<>>
    /\ llast = LInitLast

\* mutant of RestAfter: an entry that cannot be read stays at the head
RestAfterKeepFailed(entries) ==
    IF entries = <<>> THEN {entries}
    ELSE IF Head(entries).fail # "none" THEN {entries}
    ELSE {Tail(entries)}

\* what self.rd.next() leaves in the iterator: it moves past the entry it
\* returns; after an iteration error the platform's ReadDir either goes on
\* with the following entry or is at its end
RestAfter(entries) ==
    IF entries = <<>> THEN {entries}
    ELSE IF Head(entries).fail = "iter" THEN {Tail(entries), <<>>}
    ELSE {Tail(entries)}

ListEffect(mode, out) ==
    /\ rd' \in RestAfter(rd)
    /\ yielded' = IF out.res = "Some" THEN Append(yielded, out.entry) ELSE yielded
    /\ llast' = [mode |-> mode, res |-> out.res, entry |-> out.entry]

EndOfSequence == [res |-> "None", entry |-> NoEntry]

\* oio::List::next
ListNext ==
    /\ ListEffect("async",
            IF rd = <<>> THEN EndOfSequence
            ELSE ListerOutcome(root, DirPath(root, listed.dir), Head(rd)))
    /\ UNCHANGED <<root, listed, wvars, rvars, gvars, bvars>>

\* oio::BlockingList::next
BlockingListNext ==
    /\ ListEffect("blocking",
            IF rd = <<>> THEN EndOfSequence
            ELSE BlockingNextOutcome(root, DirPath(root, listed.dir), Head(rd)))
    /\ UNCHANGED <<root, listed, wvars, rvars, gvars, bvars>>

(***************************************************************************)
(* GcsWriter and the object behind its path.                               *)
(***************************************************************************)
\* most insert requests sent
MaxRequests == 2

\* statuses the store answers an insert request with
Statuses == {200, 201, 403, 500}

\* content types an OpWrite may carry
ContentTypes == {None, "text/plain"}

\* gcs_insert_object_request(path, Some(bs.len()), op.content_type(), Bytes(bs))
InsertRequest(bs) == [size |-> Len(bs), content_type |-> content_type, body |-> bs]

NoRequest == [size |-> 0, content_type |-> None, body |-> <<>>]

GInitLast ==
    [op |-> "new", res |-> "Ok", arg |-> <<>>, sent |-> 0, status |-> 0,
     req |-> NoRequest, failed |-> "none"]

GcsInit ==
    /\ content_type \in ContentTypes
    /\ object \in {Absent} \cup {Present(bs) : bs \in SeqsUpTo(Bytes, MaxWrite)}
    /\ requests = 0
    /\ glast = GInitLast
    /\ overwrote = FALSE

\* mutant of IsSuccessStatus: only 200 counts as success
IsSuccessStatusOnlyOk(status) == status = 200

\* StatusCode::CREATED | StatusCode::OK
IsSuccessStatus(status) == status \in {200, 201}

\* mutant of GcsWriteOutcome: the store appends the payload to the object it
\* holds instead of replacing it
GcsWriteOutcomeAppending(bs, step, applied, status, consumeOk) ==
    LET req == InsertRequest(bs)
        appended == Present(object.bytes \o req.body)
    IN  CASE step = "build" ->
                [res |-> "Err", sent |-> 0, status |-> 0, object |-> object,
                 req |-> NoRequest, failed |-> "build"]
          [] step = "sign" ->
                [res |-> "Err", sent |-> 0, status |-> 0, object |-> object,
                 req |-> NoRequest, failed |-> "sign"]
          [] step = "send" ->
                [res |-> "Err", sent |-> 1, status |-> 0,
                 object |-> IF applied THEN appended ELSE object,
                 req |-> req, failed |-> "send"]
          [] step = "status" ->
                IF IsSuccessStatus(status)
                THEN [res |-> IF consumeOk THEN "Ok" ELSE "Err", sent |-> 1,
                      status |-> status, object |-> appended,
                      req |-> req, failed |-> IF consumeOk THEN "none" ELSE "consume"]
                ELSE [res |-> IF consumeOk THEN "BackendErr" ELSE "Err", sent |-> 1,
                      status |-> status, object |-> object,
                      req |-> req, failed |-> IF consumeOk THEN "none" ELSE "parse"]

\* oio::Write::write: build the insert request, sign it, send it, match on the
\* status.  `step` is how far the call gets: "build", "sign" and "send" fail
\* there; "status" gets a response, whose body is then read: consumed after a
\* success status, parsed into the backend error after any other, and either
\* may fail (consumeOk).  A request that was sent may have been applied by the
\* store even if its response never arrived.
GcsWriteOutcome(bs, step, applied, status, consumeOk) ==
    LET req == InsertRequest(bs)
    IN  CASE step = "build" ->
                [res |-> "Err", sent |-> 0, status |-> 0, object |-> object,
                 req |-> NoRequest, failed |-> "build"]
          [] step = "sign" ->
                [res |-> "Err", sent |-> 0, status |-> 0, object |-> object,
                 req |-> NoRequest, failed |-> "sign"]
          [] step = "send" ->
                [res |-> "Err", sent |-> 1, status |-> 0,
                 object |-> IF applied THEN Present(req.body) ELSE object,
                 req |-> req, failed |-> "send"]
          [] step = "status" ->
                IF IsSuccessStatus(status)
                THEN [res |-> IF consumeOk THEN "Ok" ELSE "Err", sent |-> 1,
                      status |-> status, object |-> Present(req.body),
                      req |-> req, failed |-> IF consumeOk THEN "none" ELSE "consume"]
                ELSE [res |-> IF consumeOk THEN "BackendErr" ELSE "Err", sent |-> 1,
                      status |-> status, object |-> object,
                      req |-> req, failed |-> IF consumeOk THEN "none" ELSE "parse"]

GcsWrite ==
    /\ requests < MaxRequests
    /\ \E bs \in SeqsUpTo(Bytes, MaxWrite), step \in {"build", "sign", "send", "status"} :
       \E applied \in (IF step = "send" THEN BOOLEAN ELSE {FALSE}),
          status \in (IF step = "status" THEN Statuses ELSE {0}),
          consumeOk \in (IF step = "status" THEN BOOLEAN ELSE {TRUE}) :
        LET out == GcsWriteOutcome(bs, step, applied, status, consumeOk)
        IN  /\ object' = out.object
            /\ requests' = requests + out.sent
            /\ glast' = [op |-> "write", res |-> out.res, arg |-> bs,
                         sent |-> out.sent, status |-> out.status,
                         req |-> out.req, failed |-> out.failed]
            /\ overwrote' = (overwrote \/ (/\ out.res = "Ok"
                                            /\ glast.op = "write" /\ glast.res = "Ok"
                                            /\ glast.arg # <<>> /\ glast.arg # bs))
    /\ UNCHANGED <<content_type, wvars, rvars, lvars, bvars>>

\* mutant of GcsAppendOutcome: append forwards to the insert request
GcsAppendAsWrite(bs) ==
    [res |-> "Ok", sent |-> 1, status |-> 200, object |-> Present(bs)]

\* oio::Write::append: the input is dropped and Unsupported returned
GcsAppendOutcome(bs) ==
    [res |-> "Unsupported", sent |-> 0, status |-> 0, object |-> object]

GcsAppend ==
    /\ \E bs \in SeqsUpTo(Bytes, MaxWrite) :
        LET out == GcsAppendOutcome(bs)
        IN  /\ object' = out.object
            /\ requests' = requests + out.sent
            /\ glast' = [op |-> "append", res |-> out.res, arg |-> bs,
                         sent |-> out.sent, status |-> out.status,
                         req |-> NoRequest, failed |-> "none"]
    /\ UNCHANGED <<content_type, overwrote, wvars, rvars, lvars, bvars>>

\* oio::Write::close
GcsClose ==
    /\ glast' = [op |-> "close", res |-> "Ok", arg |-> <<>>, sent |-> 0, status |-> 0,
                 req |-> NoRequest, failed |-> "none"]
    /\ UNCHANGED <<content_type, object, requests, overwrote, wvars, rvars, lvars, bvars>>

(***************************************************************************)
(* NucleiFsBuilder and the directories it builds on.                       *)
(***************************************************************************)
\* most Accessors built in one run
MaxBuilds == 2

\* the directories of the backing store; "/data/root" lies in "/data"
StoreDirs == {"/data", "/data/root", "/stage"}

\* what a caller passes to NucleiFsBuilder::root ("" unsets it) and to
\* NucleiFsBuilder::atomic_write_dir; "/data/root/." names "/data/root"
RootArgs == {"", "/data/root", "/data/root/."}

AtomicWriteDirArgs == {"", "/stage", "/data"}

\* content of a directory that is not the layer's own
UnrelatedEntries == {"keep"}

NoDir == [exists |-> FALSE, entries |-> {}]

\* Path::canonicalize of a path that exists
Canonical(p) == IF p = "/data/root/." THEN "/data/root" ELSE p

\* the directories create_dir_all(p) makes sure of: p and its parents
Ancestors(p) == IF Canonical(p) = "/data/root" THEN {"/data", "/data/root"} ELSE {Canonical(p)}

\* std::fs::create_dir_all(p): existing directories keep their entries
CreateDirAll(st, p) ==
    [d \in StoreDirs |->
        IF d \in Ancestors(p) /\ ~st[d].exists THEN [exists |-> TRUE, entries |-> {}]
        ELSE st[d]]

\* create_dir_all(p) that fails after it created the parents of p
CreateParents(st, p) ==
    [d \in StoreDirs |->
        IF d \in Ancestors(p) \ {Canonical(p)} /\ ~st[d].exists
        THEN [exists |-> TRUE, entries |-> {}]
        ELSE st[d]]

\* how the underlying calls of one build may fail: the metadata call with an
\* error other than NotFound, create_dir_all before or after it created the
\* parents, canonicalize
BuildFaults ==
    {"none", "metadata_root", "create_root", "create_root_partial",
     "metadata_tmp", "create_tmp", "create_tmp_partial", "canon_root", "canon_tmp"}

\* mutant of EnsureDir: the directory is made anew whether it exists or not
EnsureDirRecreate(st, p, mdFault, createFault) ==
    IF createFault # "none"
    THEN [ok |-> FALSE, steps |-> <<"metadata", "create_dir_all">>, store |-> st]
    ELSE [ok |-> TRUE, steps |-> <<"metadata", "create_dir_all">>,
          store |-> [CreateDirAll(st, p) EXCEPT ![Canonical(p)].entries = {}]]

\* "If ... dir is not exist, we must create it": metadata(p), and
\* create_dir_all(p) only when metadata fails with NotFound; any other
\* metadata error is passed over
EnsureDir(st, p, mdFault, createFault) ==
    IF mdFault \/ st[Canonical(p)].exists
    THEN [ok |-> TRUE, steps |-> <<"metadata">>, store |-> st]
    ELSE IF createFault = "fail"
    THEN [ok |-> FALSE, steps |-> <<"metadata", "create_dir_all">>, store |-> st]
    ELSE IF createFault = "partial"
    THEN [ok |-> FALSE, steps |-> <<"metadata", "create_dir_all">>,
          store |-> CreateParents(st, p)]
    ELSE [ok |-> TRUE, steps |-> <<"metadata", "create_dir_all">>,
          store |-> CreateDirAll(st, p)]

\* p.canonicalize(): fails for a path that does not exist
Canonicalize(st, p, fault) ==
    IF fault \/ ~st[Canonical(p)].exists
    THEN [ok |-> FALSE, path |-> None]
    ELSE [ok |-> TRUE, path |-> Canonical(p)]

NoBackend == [built |-> FALSE, root |-> None, atomic_write_dir |-> None]

BuildFailed(kind, b, st, steps) ==
    [res |-> kind, builder |-> b, store |-> st, backend |-> NoBackend, steps |-> steps]

CreateFault(fault, failName, partialName) ==
    IF fault = failName THEN "fail" ELSE IF fault = partialName THEN "partial" ELSE "none"

\* Builder::build from `let root = ...?` on, with the root r taken out of
\* the builder: make sure of the root, take atomic_write_dir and make sure of
\* it, canonicalize both.  Every `?` returns from the call where it stands.
BuildWithRoot(b, st, fault) ==
    LET b1 == [b EXCEPT !.root = None]
        r == EnsureDir(st, b.root, fault = "metadata_root",
                       CreateFault(fault, "create_root", "create_root_partial"))
    IN  IF ~r.ok THEN BuildFailed("Unexpected", b1, r.store, r.steps)
        ELSE
        LET b2 == [b1 EXCEPT !.atomic_write_dir = None]
            a == IF b.atomic_write_dir = None
                 THEN [ok |-> TRUE, steps |-> <<>>, store |-> r.store]
                 ELSE EnsureDir(r.store, b.atomic_write_dir, fault = "metadata_tmp",
                                CreateFault(fault, "create_tmp", "create_tmp_partial"))
        IN  IF ~a.ok THEN BuildFailed("Unexpected", b2, a.store, r.steps \o a.steps)
            ELSE
            LET cr == Canonicalize(a.store, b.root, fault = "canon_root")
                s3 == r.steps \o a.steps \o <<"canonicalize">>
            IN  IF ~cr.ok THEN BuildFailed("Unexpected", b2, a.store, s3)
                ELSE
                LET ca == IF b.atomic_write_dir = None
                          THEN [ok |-> TRUE, path |-> None]
                          ELSE Canonicalize(a.store, b.atomic_write_dir,
                                            fault = "canon_tmp")
                    s4 == IF b.atomic_write_dir = None THEN s3
                          ELSE s3 \o <<"canonicalize">>
                IN  IF ~ca.ok THEN BuildFailed("Unexpected", b2, a.store, s4)
                    ELSE [res |-> "Ok", builder |-> b2, store |-> a.store,
                          backend |-> [built |-> TRUE, root |-> cr.path,
                                       atomic_write_dir |-> ca.path],
                          steps |-> s4]

\* mutant of BuildOutcome: the staging directory is made sure of before the
\* root is looked at
BuildOutcomeStagingFirst(b, st, fault) ==
    IF b.root = None
    THEN LET a == IF b.atomic_write_dir = None
                  THEN [ok |-> TRUE, steps |-> <<>>, store |-> st]
                  ELSE EnsureDir(st, b.atomic_write_dir, FALSE, "none")
         IN  BuildFailed("ConfigInvalid", b, a.store, a.steps)
    ELSE BuildWithRoot(b, st, fault)

\* Builder::build: self.root.take(), ConfigInvalid when it is None
BuildOutcome(b, st, fault) ==
    IF b.root = None
    THEN BuildFailed("ConfigInvalid", b, st, <<>>)
    ELSE BuildWithRoot(b, st, fault)

BInitLast ==
    [op |-> "default", res |-> "Ok", fault |-> "none", steps |-> <<>>, arg |-> "",
     config |-> [root |-> None, atomic_write_dir |-> None]]

\* NucleiFsBuilder::default() over any backing store
BuilderInit ==
    /\ builder = [root |-> None, atomic_write_dir |-> None]
    /\ store \in {st \in [StoreDirs -> [exists : BOOLEAN, entries : SUBSET UnrelatedEntries]] :
                    /\ \A d \in StoreDirs : ~st[d].exists => st[d].entries = {}
                    /\ st["/data/root"].exists => st["/data"].exists}
    /\ backend = NoBackend
    /\ blast = BInitLast
    /\ built = <<>>

\* NucleiFsBuilder::root
BuilderRoot ==
    /\ \E r \in RootArgs :
        /\ builder' = [builder EXCEPT !.root = IF r = "" THEN None ELSE r]
        /\ blast' = [BInitLast EXCEPT !.op = "root", !.arg = r, !.config = builder']
    /\ UNCHANGED <<store, backend, built, wvars, rvars, lvars, gvars>>

\* NucleiFsBuilder::atomic_write_dir
BuilderAtomicWriteDir ==
    /\ \E dir \in AtomicWriteDirArgs :
        /\ builder' = [builder EXCEPT !.atomic_write_dir = IF dir = "" THEN None ELSE dir]
        /\ blast' = [BInitLast EXCEPT !.op = "atomic_write_dir", !.arg = dir, !.config = builder']
    /\ UNCHANGED <<store, backend, built, wvars, rvars, lvars, gvars>>

\* Builder::build
Build ==
    /\ Len(built) < MaxBuilds
    /\ \E fault \in BuildFaults :
        LET out == BuildOutcome(builder, store, fault)
        IN  /\ builder' = out.builder
            /\ store' = out.store
            /\ backend' = out.backend
            /\ built' = IF out.res = "Ok" THEN Append(built, out.backend) ELSE built
            /\ blast' = [op |-> "build", res |-> out.res, fault |-> fault,
                         steps |-> out.steps, arg |-> "", config |-> builder]
    /\ UNCHANGED <<wvars, rvars, lvars, gvars>>

(***************************************************************************)
(* Specifications: one per component, the others held at their initial     *)
(* values.                                                                 *)
(***************************************************************************)
WriterIdle ==
    /\ fs = [p \in Paths |-> None]
    /\ data = [i \in Inodes |-> <<>>]
    /\ tmp_path = [w \in Writers |-> None]
    /\ f = [w \in Writers |-> NoHandle]
    /\ wlast = WInitLast
    /\ passed = [w \in Writers |-> <<>>]
    /\ closeFailed = [w \in Writers |-> FALSE]
    /\ prior = Absent

ReaderIdle ==
    /\ file = <<>>
    /\ rpos = 0
    /\ buf = <<>>
    /\ rlast = RInitLast
    /\ rt = [limit |-> 0, acc |-> <<>>, state |-> "idle"]

ListerIdle ==
    /\ root = RootPath
    /\ listed = [dir |-> <<>>, children |-> <<>>]
    /\ rd = <<>>
    /\ yielded = <<>>
    /\ llast = LInitLast

GcsIdle ==
    /\ content_type = None
    /\ object = Absent
    /\ requests = 0
    /\ glast = GInitLast
    /\ overwrote = FALSE

BuilderIdle ==
    /\ builder = [root |-> None, atomic_write_dir |-> None]
    /\ store = [d \in StoreDirs |-> NoDir]
    /\ backend = NoBackend
    /\ blast = BInitLast
    /\ built = <<>>

\* one nucleifs Writer handle
Init == WriterInit({1}) /\ ReaderIdle /\ ListerIdle /\ GcsIdle /\ BuilderIdle

Next ==
    \E w \in Writers :
        \/ Write(w)
        \/ BlockingWrite(w)
        \/ Close(w)
        \/ BlockingClose(w)
        \/ Abort(w)

Spec == Init /\ [][Next]_vars

\* one nucleifs Reader handle under any calls
InitReader == ReaderInit /\ WriterIdle /\ ListerIdle /\ GcsIdle /\ BuilderIdle

NextReader == Read \/ Seek

SpecReader == InitReader /\ [][NextReader]_vars

\* one nucleifs Reader handle under the read-until-empty loop
InitRoundTrip == RoundTripInit /\ WriterIdle /\ ListerIdle /\ GcsIdle /\ BuilderIdle

NextRoundTrip == RtRead

SpecRoundTrip == InitRoundTrip /\ [][NextRoundTrip]_vars

\* one nucleifs Lister handle
InitLister == ListerInit /\ WriterIdle /\ ReaderIdle /\ GcsIdle /\ BuilderIdle

NextLister == ListNext \/ BlockingListNext

SpecLister == InitLister /\ [][NextLister]_vars

\* one gcs Writer handle
InitGcs == GcsInit /\ WriterIdle /\ ReaderIdle /\ ListerIdle /\ BuilderIdle

NextGcs == GcsWrite \/ GcsAppend \/ GcsClose

SpecGcs == InitGcs /\ [][NextGcs]_vars

\* two nucleifs Writer handles on the same target path, the calls of their
\* oio::Write interleaved
InitTwoWriters ==
    WriterInit(Writers) /\ ReaderIdle /\ ListerIdle /\ GcsIdle /\ BuilderIdle

NextTwoWriters ==
    \E w \in Writers :
        \/ Write(w)
        \/ Close(w)
        \/ Abort(w)

SpecTwoWriters == InitTwoWriters /\ [][NextTwoWriters]_vars

\* one NucleiFsBuilder
InitBuilder == BuilderInit /\ WriterIdle /\ ReaderIdle /\ ListerIdle /\ GcsIdle

NextBuilder == BuilderRoot \/ BuilderAtomicWriteDir \/ Build

SpecBuilder == InitBuilder /\ [][NextBuilder]_vars

(***************************************************************************)
(* Claims about the nucleifs Writer, checked under Spec.                   *)
(***************************************************************************)
\* the step just taken was call `op` on handle w (every call records itself
\* in wlast, so a step that changes the state and ends in wlast' is that call)
WStep(w, op) == wlast'.w = w /\ wlast'.op = op

StagingExists(w) == tmp_path[w] # None /\ fs[tmp_path[w]] # None

\* C1: after a successful async close of an atomic-commit handle the target
\* holds exactly the concatenation of all bytes passed to write, in call
\* order, and the staging file no longer exists.
C1_CloseCommitsConcatenation ==
    \A w \in Writers :
        (wlast.w = w /\ wlast.op = "close" /\ wlast.mode = "async"
            /\ wlast.res = "Ok" /\ IsAtomic(w))
        => /\ TargetView = Present(passed[w])
           /\ fs[tmp_path[w]] = None

\* C2: every successful write, async or blocking, returns the length of its
\* input.
C2_WriteReturnsInputLength ==
    (wlast.op = "write" /\ wlast.res = "Ok") => wlast.n = Len(wlast.arg)

\* C3: under the atomic-commit policy the target path shows either the prior
\* content (or absence) or the complete new content, and only the rename
\* inside a successful close changes what it shows.
C3_TargetOldOrCompleteNew ==
    [][(\A w \in Writers : Live(w) => IsAtomic(w))
        => /\ \/ TargetView' = prior
              \/ \E w \in Writers : Live(w) /\ TargetView' = Present(passed'[w])
           /\ TargetView' # TargetView
                => /\ wlast'.op = "close"
                   /\ wlast'.res = "Ok"
                   /\ wlast'.steps[Len(wlast'.steps)] = "rename"]_vars

\* C4: a close of an atomic-commit handle that fails (at flush, sync or
\* rename) while its staging file exists leaves the target as it was and the
\* staging file in place with its content; an abort after a failed close
\* leaves the target as it was, and when it succeeds the staging file is gone.
C4_FailedCloseKeepsStaging ==
    [][\A w \in Writers :
        /\ (WStep(w, "close") /\ wlast'.res # "Ok" /\ StagingExists(w))
            => /\ TargetView' = TargetView
               /\ fs' = fs
               /\ data' = data
               /\ StagingExists(w)'
        /\ (WStep(w, "abort") /\ closeFailed[w] /\ StagingExists(w))
            => /\ TargetView' = TargetView
               /\ wlast'.res \in {"Ok", "Unexpected"}
               /\ wlast'.res = "Ok" => fs'[tmp_path[w]] = None
               /\ wlast'.res # "Ok" => fs' = fs]_vars

\* C4 witness: a close failed, then abort removed the staging file, and the
\* target still shows what it showed before the handle was created.
C4_Witness ==
    \E w \in Writers :
        /\ wlast.w = w /\ wlast.op = "abort" /\ wlast.res = "Ok"
        /\ closeFailed[w]
        /\ Len(passed[w]) > 0
        /\ fs[tmp_path[w]] = None
        /\ TargetView = prior

\* C5: abort on a handle with a staging file deletes that file and leaves the
\* target untouched; abort on a handle without one fails with Unsupported and
\* changes neither the files nor the handle.
C5_AbortContract ==
    [][\A w \in Writers :
        WStep(w, "abort")
        => /\ TargetView' = TargetView
           /\ data' = data
           /\ f' = f
           /\ tmp_path' = tmp_path
           /\ StagingExists(w)
                => /\ wlast'.res \in {"Ok", "Unexpected"}
                   /\ wlast'.res = "Ok"
                        => fs' = [fs EXCEPT ![tmp_path[w]] = None]
           /\ ~IsAtomic(w) => (wlast'.res = "Unsupported" /\ fs' = fs)]_vars

\* C5 witness: abort on a handle without a staging path returned Unsupported
\* after bytes had been written through the handle.
C5_Witness ==
    \E w \in Writers :
        /\ wlast.w = w /\ wlast.op = "abort" /\ wlast.res = "Unsupported"
        /\ ~IsAtomic(w)
        /\ Len(passed[w]) > 0
        /\ TargetView = Present(data[f[w].ino])

(***************************************************************************)
(* Claims about the gcs Writer, checked under SpecGcs.                     *)
(***************************************************************************)
\* C6: append on the gcs Writer can be called in every state, fails with
\* Unsupported for every input, sends no request and leaves the stored object
\* as it was.
C6_AppendUnsupported ==
    [][glast'.op = "append"
        => /\ glast'.res = "Unsupported"
           /\ glast'.sent = 0
           /\ requests' = requests
           /\ object' = object]_vars

\* C6 witness: an append of a non-empty input was refused after an insert
\* request had stored a different object.
C6_Witness ==
    /\ glast.op = "append" /\ glast.res = "Unsupported"
    /\ Len(glast.arg) > 0
    /\ requests > 0
    /\ object.exists /\ object.bytes # glast.arg

(***************************************************************************)
(* Claims about the nucleifs Reader.                                       *)
(***************************************************************************)
\* the bytes of the file from offset o on, at most n of them
Slice(o, n) == SubSeq(file, o + 1, Min(o + n, Len(file)))

\* C7 as stated (checked under SpecRoundTrip): for every limit >= 0, reading
\* until a read returns no bytes reproduces the backing bytes.
C7_RoundTripAnyLimit == rt.state = "done" => rt.acc = file

\* C7 amended: what the reads have returned so far is always a prefix of the
\* backing bytes; when the loop ends it is all of them for a limit >= 1, and
\* nothing for limit 0, where the first read already returns no bytes.
C7_RoundTripPositiveLimit ==
    /\ rt.state # "idle" => IsPrefix(rt.acc, file)
    /\ rt.state = "done" => rt.acc = (IF rt.limit > 0 THEN file ELSE <<>>)

\* C7 witness: a loop with a limit shorter than the file ended after several
\* reads with the whole file.
C7_Witness ==
    /\ rt.state = "done"
    /\ rt.limit > 0 /\ rt.limit < Len(file)
    /\ rt.acc = file

\* C8 as stated (checked under SpecReader): a successful read returns exactly
\* the bytes one underlying read produced at the position, at most `limit` of
\* them, and none only at end-of-stream.
C8_ReadZeroOnlyAtEnd ==
    [][(rlast'.op = "read" /\ rlast'.res = "Ok")
        => /\ rlast'.out = SubSeq(file, rpos + 1, rpos + Len(rlast'.out))
           /\ rpos' = rpos + Len(rlast'.out)
           /\ Len(rlast'.out) <= rlast'.limit
           /\ Len(rlast'.out) = 0 => rpos >= Len(file)]_vars

\* C8 amended: as stated, except that a read also returns no bytes when
\* limit = 0.
C8_ReadContract ==
    [][(rlast'.op = "read" /\ rlast'.res = "Ok")
        => /\ rlast'.out = SubSeq(file, rpos + 1, rpos + Len(rlast'.out))
           /\ rpos' = rpos + Len(rlast'.out)
           /\ Len(rlast'.out) <= rlast'.limit
           /\ Len(rlast'.out) = 0 => (rpos >= Len(file) \/ rlast'.limit = 0)]_vars

\* C8 witness: a read returned fewer bytes than its limit, and the next cell of
\* the slice it read into holds a byte of an earlier read that differs from
\* the file's next byte.
C8_Witness ==
    /\ rlast.op = "read" /\ rlast.res = "Ok"
    /\ Len(rlast.out) >= 1
    /\ Len(rlast.out) < rlast.limit
    /\ buf[Len(rlast.out) + 1] # Uninit
    /\ rpos < Len(file)
    /\ buf[Len(rlast.out) + 1] # file[rpos + 1]

\* C9 as stated (checked under SpecReader): a seek returns the new absolute
\* offset o and keeps the scratch buffer, and the read(n) after it returns
\* exactly the bytes at [o, o+n), fewer only at end-of-stream.
C9_SeekThenReadExact ==
    [][/\ (rlast'.op = "seek" /\ rlast'.res = "Ok")
            => /\ rlast'.off = SeekTarget(rlast'.origin, rlast'.arg)
               /\ rpos' = rlast'.off
               /\ buf' = buf
       /\ (rlast.op = "seek" /\ rlast.res = "Ok"
            /\ rlast'.op = "read" /\ rlast'.res = "Ok")
            => rlast'.out = Slice(rlast.off, rlast'.limit)]_vars

\* C9 amended: the read(n) after a seek to o returns the bytes at [o, o+k)
\* for the count k <= n its one underlying read delivered, and k = 0 only when
\* n = 0 or o is at or past the end.
C9_SeekThenReadPrefix ==
    [][/\ (rlast'.op = "seek" /\ rlast'.res = "Ok")
            => /\ rlast'.off = SeekTarget(rlast'.origin, rlast'.arg)
               /\ rpos' = rlast'.off
               /\ buf' = buf
       /\ (rlast.op = "seek" /\ rlast.res = "Ok"
            /\ rlast'.op = "read" /\ rlast'.res = "Ok")
            => /\ IsPrefix(rlast'.out, Slice(rlast.off, rlast'.limit))
               /\ Len(rlast'.out) = 0
                    => (rlast'.limit = 0 \/ rlast.off >= Len(file))]_vars

\* C9 witness: after earlier reads had filled the scratch buffer, a seek back
\* to a smaller absolute offset was followed by a read that returned the
\* bytes from that offset.
C9_Witness ==
    /\ rlast.op = "read" /\ rlast.res = "Ok"
    /\ rlast.afterSeek /\ rlast.seekOff = 1
    /\ rlast.limit = 2
    /\ Len(file) = 3
    /\ rlast.out = SubSeq(file, 2, 3)
    /\ Len(buf) >= 3
    /\ buf[3] = file[3]

(***************************************************************************)
(* Claims about the nucleifs Lister, checked under SpecLister.             *)
(***************************************************************************)
\* a name with the layer's canonical separator for every backslash
CanonicalName(name) == [i \in 1..Len(name) |-> IF name[i] = "\\" THEN "/" ELSE name[i]]

\* the Entry a child of the listed directory stands for
ExpectedEntry(dir, de) ==
    LET rel == (IF dir = <<>> THEN <<>> ELSE dir \o <<"/">>) \o CanonicalName(de.name)
    IN  CASE de.ft = "file" -> [path |-> rel, mode |-> "FILE"]
          [] de.ft = "dir" -> [path |-> rel \o <<"/">>, mode |-> "DIR"]
          [] OTHER -> [path |-> rel, mode |-> "Unknown"]

Readable(children) == \A i \in 1..Len(children) : children[i].fail = "none"

\* C10: when next() reports end-of-sequence for a directory whose entries are
\* all readable, exactly one Entry per child has been yielded, each with its
\* path relative to the root and its mode, a directory's path ending in the
\* separator; an empty directory gives end-of-sequence at once, not an error.
C10_ListerYieldsChildren ==
    /\ (llast.mode # "new" /\ llast.res = "None" /\ Readable(listed.children))
        => /\ Len(yielded) = Len(listed.children)
           /\ {yielded[i] : i \in 1..Len(yielded)}
                = {ExpectedEntry(listed.dir, listed.children[i]) :
                       i \in 1..Len(listed.children)}
    /\ (llast.mode # "new" /\ listed.children = <<>>)
        => (llast.res = "None" /\ yielded = <<>>)

\* C10 witness: the root directory with file a.txt and subdirectory b was
\* listed to the end and gave ("a.txt", FILE) and ("b/", DIR).
C10_Witness ==
    /\ llast.mode # "new" /\ llast.res = "None"
    /\ listed.dir = <<>>
    /\ {[name |-> listed.children[i].name, ft |-> listed.children[i].ft] :
            i \in 1..Len(listed.children)}
        = {[name |-> <<"a", ".", "t", "x", "t">>, ft |-> "file"],
           [name |-> <<"b">>, ft |-> "dir"]}
    /\ {yielded[i] : i \in 1..Len(yielded)}
        = {[path |-> <<"a", ".", "t", "x", "t">>, mode |-> "FILE"],
           [path |-> <<"b", "/">>, mode |-> "DIR"]}

(***************************************************************************)
(* Equivalence of the blocking and the non-blocking variants.              *)
(***************************************************************************)
\* C11 (checked under Spec): every write or close call of one variant does
\* what the other variant does from the same state under some outcome of the
\* underlying I/O: the same sequence of underlying steps, the same result, the
\* same files.  (Equal step sequences and results are equal I/O outcomes: all
\* steps but the last succeeded, and the last one did iff the call did.)
C11_BlockingEquivalentToAsync ==
    [][\A w \in Writers :
        /\ (WStep(w, "write") /\ wlast'.mode = "blocking")
            => \E ioOk \in BOOLEAN, n \in WriteCounts(wlast'.arg) :
                LET a == WriteOutcome(w, wlast'.arg, ioOk, n)
                IN  a.res = wlast'.res /\ a.n = wlast'.n /\ a.data = data'
        /\ (WStep(w, "close") /\ wlast'.mode = "blocking")
            => \E flushOk \in BOOLEAN, syncOk \in BOOLEAN, renameOk \in BOOLEAN :
                LET a == CloseOutcome(w, flushOk, syncOk, renameOk)
                IN  a.res = wlast'.res /\ a.steps = wlast'.steps /\ a.fs = fs'
        /\ (WStep(w, "close") /\ wlast'.mode = "async")
            => \E syncOk \in BOOLEAN, renameOk \in BOOLEAN :
                LET b == BlockingCloseOutcome(w, syncOk, renameOk)
                IN  b.res = wlast'.res /\ b.steps = wlast'.steps /\ b.fs = fs']_vars

\* what the non-blocking next() returns on the native entries in rd
AsyncNextOf(entries) ==
    IF entries = <<>> THEN EndOfSequence
    ELSE ListerOutcome(root, DirPath(root, listed.dir), Head(entries))

\* what the blocking next() returns on the native entries in rd
BlockingNextOf(entries) ==
    IF entries = <<>> THEN EndOfSequence
    ELSE BlockingNextOutcome(root, DirPath(root, listed.dir), Head(entries))

\* C12 (checked under SpecLister, where every call may be of either mode):
\* on every state both modes return the same thing for the next call (the
\* same Entry, the same error or the same end-of-sequence), a call of either
\* mode returns it, consumes the same native entry and extends the yielded
\* sequence the same way, in native order.
C12_ListerModesEquivalent ==
    [][/\ AsyncNextOf(rd) = BlockingNextOf(rd)
       /\ llast'.mode \in {"async", "blocking"}
       /\ llast'.res = AsyncNextOf(rd).res
       /\ llast'.entry = BlockingNextOf(rd).entry
       /\ rd' \in RestAfter(rd)
       /\ yielded' = (IF BlockingNextOf(rd).res = "Some"
                      THEN Append(yielded, AsyncNextOf(rd).entry) ELSE yielded)]_vars

\* C12 witness: a blocking next() failed on an entry whose file type could not
\* be resolved, after an earlier call had yielded the entry before it.
C12_Witness ==
    /\ llast.mode = "blocking" /\ llast.res = "Err"
    /\ Len(listed.children) = 2 /\ rd = <<>>
    /\ listed.children[2].fail = "type"
    /\ yielded = <<ExpectedEntry(listed.dir, listed.children[1])>>

(***************************************************************************)
(* Claims about the nucleifs builder, checked under SpecBuilder.           *)
(***************************************************************************)
\* the directory a configured path names exists on the backing store
DirExists(p) == store[Canonical(p)].exists

\* C13: a build whose root directory exists, and whose staging directory
\* exists when one is configured, leaves every directory of the backing store
\* and every entry in them as they were, whether or not it is the first build;
\* it returns an Accessor on the canonical paths unless a canonicalize call
\* itself fails.
C13_BuildOnExistingDirs ==
    [][(/\ blast'.op = "build"
        /\ builder.root # None /\ DirExists(builder.root)
        /\ builder.atomic_write_dir # None => DirExists(builder.atomic_write_dir))
        => /\ store' = store
           /\ blast'.res \in {"Ok", "Unexpected"}
           /\ blast'.fault \notin {"canon_root", "canon_tmp"}
                => /\ blast'.res = "Ok"
                   /\ backend' = [built |-> TRUE, root |-> Canonical(builder.root),
                                  atomic_write_dir |->
                                      IF builder.atomic_write_dir = None THEN None
                                      ELSE Canonical(builder.atomic_write_dir)]
                   /\ built' = Append(built, backend')]_vars

\* C13 witness: two builds against the same root and staging directory both
\* returned an Accessor, and the unrelated entries the two directories held
\* from the start are still there.
C13_Witness ==
    /\ blast.op = "build" /\ blast.res = "Ok"
    /\ Len(built) = 2 /\ built[1] = built[2]
    /\ built[2] = [built |-> TRUE, root |-> "/data/root", atomic_write_dir |-> "/stage"]
    /\ store["/data/root"].entries = {"keep"}
    /\ store["/stage"].entries = {"keep"}

\* C14: the root setter called with the empty string leaves the root unset,
\* and a build with the root unset returns ConfigInvalid before any call to
\* the backing store: no Accessor, no directory created, the configured
\* staging directory included.
C14_BuildWithoutRoot ==
    [][/\ (blast'.op = "root" /\ blast'.arg = "") => builder'.root = None
       /\ (blast'.op = "build" /\ builder.root = None)
            => /\ blast'.res = "ConfigInvalid"
               /\ blast'.steps = <<>>
               /\ backend' = NoBackend
               /\ built' = built
               /\ store' = store]_vars

\* C14 witness: a build with the root unset and a staging directory
\* configured that does not exist returned ConfigInvalid, and the staging
\* directory still does not exist.
C14_Witness ==
    /\ blast.op = "build" /\ blast.res = "ConfigInvalid"
    /\ blast.config.root = None
    /\ blast.config.atomic_write_dir = "/stage"
    /\ ~store["/stage"].exists
    /\ backend = NoBackend

(***************************************************************************)
(* Claims about the write of the gcs Writer, checked under SpecGcs.        *)
(***************************************************************************)
\* the request the last write call handed to send carried the whole input,
\* its length and the handle's content type
CarriesPayload(call) ==
    /\ call.req.body = call.arg
    /\ call.req.size = Len(call.arg)
    /\ call.req.content_type = content_type

\* C15 as stated: write sends one insert request and no second one, with the
\* payload, its length and the content type, succeeds if and only if the
\* response status is 200 or 201, and returns the parsed backend error for
\* any other status.
C15_WriteOkIffSuccessStatus ==
    [][glast'.op = "write"
        => /\ glast'.sent \in {0, 1}
           /\ glast'.sent = 1 => CarriesPayload(glast')
           /\ glast'.res = "Ok" <=> glast'.status \in {200, 201}
           /\ glast'.status \notin {0, 200, 201} => glast'.res = "BackendErr"]_vars

\* C15 amended: write sends at most one insert request, none when building
\* or signing the request fails and exactly one otherwise, carrying the whole
\* payload, its length and the content type.  It succeeds if and only if the
\* response status is 200 or 201 and the response body is consumed without
\* error; any other status yields the parsed backend error when the error
\* body can be read; a failure of building, signing, sending or reading the
\* response is returned from the same call, with no second request.
C15_WriteOkIffStatusAndBody ==
    [][glast'.op = "write"
        => /\ glast'.sent \in {0, 1}
           /\ requests' = requests + glast'.sent
           /\ glast'.sent = 0 <=> glast'.failed \in {"build", "sign"}
           /\ glast'.sent = 1 => CarriesPayload(glast')
           /\ glast'.res = "Ok"
                <=> (glast'.status \in {200, 201} /\ glast'.failed = "none")
           /\ (glast'.status \notin {0, 200, 201} /\ glast'.failed = "none")
                => glast'.res = "BackendErr"
           /\ glast'.failed # "none" => glast'.res = "Err"
           /\ glast'.failed \in {"build", "sign"} => object' = object]_vars

\* C15 witness: a write of two bytes with a content type was answered 201 and
\* returned Ok, as the second request of the handle, after a request that
\* was refused.
C15_Witness ==
    /\ glast.op = "write" /\ glast.res = "Ok" /\ glast.status = 201
    /\ Len(glast.arg) = 2
    /\ glast.req = [size |-> 2, content_type |-> "text/plain", body |-> glast.arg]
    /\ requests = 2
    /\ object = Present(glast.arg)

(***************************************************************************)
(* Claims about close of the nucleifs Writer, checked under Spec.          *)
(***************************************************************************)
\* C16: every close of an atomic-commit handle, async or blocking, runs a
\* non-empty prefix of flush, sync, rename, each step after the success of
\* the one before: the rename is attempted only after a flush and a sync, a
\* close that returns Ok has run all three, and one that fails stopped at the
\* step that failed.
C16_CloseStepsInOrder ==
    [][\A w \in Writers :
        (WStep(w, "close") /\ IsAtomic(w))
        => /\ wlast'.steps # <<>>
           /\ IsPrefix(wlast'.steps, <<"flush", "sync", "rename">>)
           /\ wlast'.res = "Ok" => wlast'.steps = <<"flush", "sync", "rename">>
           /\ wlast'.steps # <<"flush", "sync", "rename">> => fs' = fs]_vars

\* C17: a close of an atomic-commit handle that returns Ok after an earlier
\* close of the same handle had failed commits like a first close: the target
\* then holds the concatenation of all bytes passed to the handle's write
\* calls, and the staging file is gone.
C17_RetriedCloseCommits ==
    [][\A w \in Writers :
        (WStep(w, "close") /\ IsAtomic(w) /\ closeFailed[w] /\ wlast'.res = "Ok")
        => /\ TargetView' = Present(passed[w])
           /\ fs'[tmp_path[w]] = None
           /\ data' = data]_vars

(***************************************************************************)
(* Claims about failures of the nucleifs Lister, checked under SpecLister. *)
(***************************************************************************)
\* s is what is left of t after some of its first elements are dropped
IsSuffix(s, t) == Len(s) <= Len(t) /\ SubSeq(t, Len(t) - Len(s) + 1, Len(t)) = s

\* C18: a next() call, of either mode, on a native entry that cannot be read
\* (iteration error or file-type error) returns an error and no Entry, leaves
\* the entries yielded so far as they are and consumes the native entry; the
\* call after it is decided by the entries that follow: a readable entry is
\* yielded, and what has been yielded never holds an entry twice nor an entry
\* of a child that could not be read.
C18_FailedEntryConsumed ==
    [][rd # <<>>
        => /\ Head(rd).fail # "none"
                => /\ llast'.res = "Err" /\ llast'.entry = NoEntry
                   /\ yielded' = yielded
           /\ Head(rd).fail = "none"
                => /\ llast'.res = "Some"
                   /\ llast'.entry = ExpectedEntry(listed.dir, Head(rd))
                   /\ yielded' = Append(yielded, llast'.entry)
           /\ IsSuffix(rd', Tail(rd))
           /\ \A i, j \in 1..Len(yielded') : i # j => yielded'[i] # yielded'[j]
           /\ \A i \in 1..Len(yielded') :
                \E k \in 1..Len(listed.children) :
                    /\ listed.children[k].fail = "none"
                    /\ yielded'[i] = ExpectedEntry(listed.dir, listed.children[k])]_vars

\* C18 witness: the first next() failed on an entry whose file type could
\* not be resolved, and the next() after it yielded the entry that follows.
C18_Witness ==
    /\ llast.res = "Some"
    /\ Len(listed.children) = 2 /\ rd = <<>>
    /\ listed.children[1].fail = "type"
    /\ listed.children[2].fail = "none"
    /\ yielded = <<ExpectedEntry(listed.dir, listed.children[2])>>

(***************************************************************************)
(* Claims about the nucleifs Writer after its commit, checked under Spec.  *)
(***************************************************************************)
\* a close of the atomic-commit handle w has succeeded: the file w was
\* opened on, created as its staging file, is the file at the target path
Committed(w) == IsAtomic(w) /\ Live(w) /\ fs[TargetPath] = f[w].ino

\* C19: after the commit of an atomic-commit handle no call on that handle
\* changes what the target path shows, and a close or an abort on it
\* returns an error, so that the handle commits only once.
C19_NoChangeAfterCommit ==
    [][\A w \in Writers :
        (Committed(w) /\ wlast'.w = w)
        => /\ TargetView' = TargetView
           /\ wlast'.op \in {"close", "abort"}
                => (wlast'.res = "Unexpected" /\ fs' = fs)]_vars

(***************************************************************************)
(* Claims about two nucleifs Writers on one target path, checked under     *)
(* SpecTwoWriters.                                                         *)
(***************************************************************************)
\* C20: two atomic-commit handles on the same target have distinct staging
\* files; after every step of either handle the target shows what it showed
\* before the handles were created or the complete payload of the one handle
\* whose renamed staging file is at the target; an abort changes neither the
\* target nor the other handle's staging file.
C20_TwoWritersNeverMix ==
    [][(\A w \in Writers : Live(w) /\ IsAtomic(w))
        => /\ tmp_path[1] # tmp_path[2]
           /\ \/ TargetView' = prior
              \/ \E w \in Writers :
                    /\ fs'[TargetPath] = f[w].ino
                    /\ TargetView' = Present(passed'[w])
           /\ \A w \in Writers :
                WStep(w, "abort")
                => /\ fs'[TargetPath] = fs[TargetPath]
                   /\ \A v \in Writers \ {w} : fs'[tmp_path[v]] = fs[tmp_path[v]]]_vars

(***************************************************************************)
(* Claims about the object behind the gcs Writer, checked under SpecGcs.   *)
(***************************************************************************)
\* what close does, in both statements of C21: it returns Ok, sends no
\* request and leaves the object as it is
CloseIsNoOp ==
    glast'.op = "close"
    => /\ glast'.res = "Ok" /\ glast'.sent = 0
       /\ requests' = requests
       /\ object' = object

\* C21 as stated: a write that returns Ok leaves the object equal to its
\* payload alone, a write that fails leaves the object as it was, and close
\* is a no-op that returns Ok.
C21_FailedWriteKeepsObject ==
    [][/\ (glast'.op = "write" /\ glast'.res = "Ok") => object' = Present(glast'.arg)
       /\ (glast'.op = "write" /\ glast'.res # "Ok") => object' = object
       /\ CloseIsNoOp]_vars

\* C21 amended: a write that returns Ok leaves the object equal to its
\* payload alone, whatever was written before; a write that fails before its
\* request is sent, or is answered with another status than 200 or 201,
\* leaves the object as it was; a write that fails at send or while
\* consuming the body of a 200 or 201 response leaves the object as it was
\* or replaced by its payload; close is a no-op that returns Ok.
C21_WriteReplacesObject ==
    [][/\ (glast'.op = "write" /\ glast'.res = "Ok")
            => object' = Present(glast'.arg)
       /\ (glast'.op = "write" /\ glast'.res # "Ok")
            => /\ object' \in {object, Present(glast'.arg)}
               /\ glast'.failed \notin {"send", "consume"} => object' = object
               /\ glast'.failed = "consume" => object' = Present(glast'.arg)
       /\ CloseIsNoOp]_vars

\* C21 witness: a write returned Ok directly after a write that returned Ok
\* with another, non-empty payload, and the object is the second payload
\* alone, not the two in a row.
C21_Witness ==
    /\ glast.op = "write" /\ glast.res = "Ok"
    /\ overwrote
    /\ requests = 2
    /\ Len(glast.arg) = 1
    /\ object = Present(glast.arg)

====
